---- MODULE Spec2Model ----
(***************************************************************************)
(* A model of the resume optimizer: the n-gram extractor of the word-cloud *)
(* tab (generateNgrams), the rewriter of the resume tab (processText,      *)
(* handleEnhance), the scoring of the ATS tab (ATSChecker) and the         *)
(* word-cloud tab with its effects and its save into the App.              *)
(*                                                                         *)
(* A JavaScript string is modelled as a sequence of one-character strings, *)
(* so that every regular expression, slice and offset of the source is     *)
(* computed on characters, as the code computes it.                        *)
(***************************************************************************)
EXTENDS Integers, Sequences, FiniteSets

VARIABLES
    ngPhase,        \* extractor harness: "input", "extracted" or "reextracted"
    ngText,         \* generateNgrams: the argument text
    ngN,            \* generateNgrams: the argument n
    ngLimit,        \* generateNgrams: the argument limit
    ngExcluded,     \* the excludedWords set the call reads
    ngResult,       \* the list the last call returned
    ngBefore,       \* the list returned before the last phrase was excluded
    ngAdded,        \* the phrase excluded last
    selectedWords,  \* ResumeTab: the selectedWords prop
    resumeText,     \* ResumeTab: state resumeText
    optimizedText,  \* ResumeTab: state optimizedText, rendered as markup
    changes,        \* ResumeTab: state changes, the change log
    uploading,      \* handleFileUpload is suspended at an await
    uploaded,       \* the converted text of the last uploaded document
    lastOp,         \* the handler that ran last
    enhanceInput,   \* the optimizedText the last handleEnhance read
    changesBefore,  \* the changes the last handleEnhance read
    enhances,       \* the calls of handleEnhance since the last upload
    atsText,        \* ATSChecker: state resumeText
    atsScore,       \* ATSChecker: state atsScore
    keywordMatches, \* ATSChecker: state keywordMatches
    missingKeywords,\* ATSChecker: state missingKeywords
    fontScore,      \* the value analyzeFonts returned to the last analysis
    atsOp,          \* ATSChecker: the outcome of the last upload
    activeTab,      \* App: state activeTab
    inputText,      \* WordCloudTab: state inputText
    words,          \* WordCloudTab: state words, the displayed list
    cloudType,      \* WordCloudTab: state cloudType
    useTrigrams,    \* WordCloudTab: state useTrigrams
    wcExcluded,     \* WordCloudTab: state excludedWords
    effectPending,  \* the effect of lines 103-105 is to run after the render
    drawn,          \* the cloud in the svg element and the render that drew it
    wcOp            \* WordCloudTab: the handler that ran last

ngVars == <<ngPhase, ngText, ngN, ngLimit, ngExcluded, ngResult, ngBefore, ngAdded>>

rsVars == <<selectedWords, resumeText, optimizedText, changes, uploading, uploaded,
            lastOp, enhanceInput, changesBefore, enhances>>

atsVars == <<atsText, atsScore, keywordMatches, missingKeywords, fontScore, atsOp>>

wcVars == <<activeTab, inputText, words, cloudType, useTrigrams, wcExcluded, effectPending,
            drawn, wcOp>>

vars == <<ngVars, rsVars, atsVars, wcVars>>

\* the extractor harness before any call, and a resume tab just mounted
NgramIdle ==
    /\ ngPhase = "input"
    /\ ngText = <<>>
    /\ ngN = 1
    /\ ngLimit = 0
    /\ ngExcluded = {}
    /\ ngResult = <<>>
    /\ ngBefore = <<>>
    /\ ngAdded = <<>>

ResumeIdle ==
    /\ selectedWords = <<>>
    /\ resumeText = <<>>
    /\ optimizedText = <<>>
    /\ changes = <<>>
    /\ uploading = FALSE
    /\ uploaded = <<>>
    /\ lastOp = "none"
    /\ enhanceInput = <<>>
    /\ changesBefore = <<>>
    /\ enhances = 0

\* A score is a quotient of integers, kept as the fraction the code
\* computes; 0 / 0 is NaN, and so is every sum or quotient with a NaN.
Frac(n, d) == [num |-> n, den |-> d]
NaN == Frac(0, 0)

\* an ATS tab just mounted (lines 35-47)
AtsIdle ==
    /\ atsText = <<>>
    /\ atsScore = [overall |-> Frac(0, 1), keywordMatch |-> Frac(0, 1), formatting |-> Frac(0, 1),
                   readability |-> Frac(0, 1), certifications |-> Frac(0, 1)]
    /\ keywordMatches = <<>>
    /\ missingKeywords = <<>>
    /\ fontScore = Frac(0, 1)
    /\ atsOp = "none"

\* an svg element nothing was drawn into; the fields besides texts are the
\* state the click handlers of the drawn words captured
EmptyCloud ==
    [texts |-> {}, inputText |-> <<>>, cloudType |-> "single", useTrigrams |-> FALSE,
     excludedWords |-> {}]

\* a word-cloud tab that is not mounted
WordCloudIdle ==
    /\ inputText = <<>>
    /\ words = <<>>
    /\ cloudType = "single"
    /\ useTrigrams = FALSE
    /\ wcExcluded = {}
    /\ effectPending = FALSE
    /\ drawn = EmptyCloud
    /\ wcOp = "none"

-----------------------------------------------------------------------------
(* Bounds of the model.                                                    *)

\* the longest argument text of the extractor, in whitespace-separated words
MaxWords == 3
\* the largest limit handed to the extractor
MaxLimit == 2
\* the most phrases excluded one after the other
MaxExcluded == 2
\* the longest uploaded document, in pieces of text
MaxPieces == 2
\* the most calls of handleEnhance on one uploaded document
MaxEnhance == 1
\* the longest document of the ATS tab, in lines
MaxLines == 2

-----------------------------------------------------------------------------
(* Characters and the string operations of JavaScript the code uses.       *)

LowerAlphabet == <<"a","b","c","d","e","f","g","h","i","j","k","l","m","n","o","p","q","r","s","t","u","v","w","x","y","z">>
UpperAlphabet == <<"A","B","C","D","E","F","G","H","I","J","K","L","M","N","O","P","Q","R","S","T","U","V","W","X","Y","Z">>

LowerLetters == {LowerAlphabet[i] : i \in 1..26}
UpperLetters == {UpperAlphabet[i] : i \in 1..26}
Letters == LowerLetters \cup UpperLetters
DigitChars == {"0","1","2","3","4","5","6","7","8","9"}
\* \s of a regular expression
WhitespaceChars == {" ", "\n", "\t", "\r"}
\* \w of a regular expression
WordChars == Letters \cup DigitChars \cup {"_"}

Max(a, b) == IF a >= b THEN a ELSE b
Min(a, b) == IF a <= b THEN a ELSE b

toLowerCaseChar(c) ==
    IF c \in UpperLetters
    THEN LowerAlphabet[CHOOSE i \in 1..26 : UpperAlphabet[i] = c]
    ELSE c

\* String.prototype.toLowerCase
toLowerCase(s) == [i \in 1..Len(s) |-> toLowerCaseChar(s[i])]

\* Array.prototype.slice / String.prototype.slice(start, end) on 0-based
\* indices: a negative index counts from the end, both are clipped to the
\* length, and an empty range gives the empty sequence.
Slice(s, start, end) ==
    LET len  == Len(s)
        from == IF start < 0 THEN Max(len + start, 0) ELSE Min(start, len)
        to   == IF end < 0 THEN Max(len + end, 0) ELSE Min(end, len)
    IN  IF from < to THEN SubSeq(s, from + 1, to) ELSE <<>>

\* text.replace(/[^a-zA-Z\s]/g, ''): every character that is neither a letter
\* nor whitespace is deleted.
StripNonAlpha(s) == SelectSeq(s, LAMBDA c : c \in Letters \cup WhitespaceChars)

\* s.split(/\s+/): the pieces between the maximal runs of whitespace; a
\* leading or trailing run leaves an empty piece, and "" splits to [""].
\* The indices at which a maximal run of whitespace starts, the index at
\* which the run that starts at i ends, and the k-th of the starts.
RunStarts(s) ==
    {i \in 1..Len(s) : s[i] \in WhitespaceChars /\ (i = 1 \/ s[i - 1] \notin WhitespaceChars)}
RunEnd(s, i) ==
    CHOOSE j \in i..Len(s) :
        /\ \A h \in i..j : s[h] \in WhitespaceChars
        /\ (j = Len(s) \/ s[j + 1] \notin WhitespaceChars)
NthStart(s, k) ==
    CHOOSE i \in RunStarts(s) : Cardinality({j \in RunStarts(s) : j <= i}) = k

\* a split at the line feeds only
SplitLineFeeds(s) ==
    LET feeds == {i \in 1..Len(s) : s[i] = "\n"}
        Nth(k) == CHOOSE i \in feeds : Cardinality({j \in feeds : j <= i}) = k
        m == Cardinality(feeds)
    IN  [k \in 1..(m + 1) |->
            SubSeq(s, IF k = 1 THEN 1 ELSE Nth(k - 1) + 1,
                      IF k = m + 1 THEN Len(s) ELSE Nth(k) - 1)]

\* s.split(/\s+/)
SplitWhitespace(s) ==
    LET m == Cardinality(RunStarts(s))
    IN  [k \in 1..(m + 1) |->
            SubSeq(s, IF k = 1 THEN 1 ELSE RunEnd(s, NthStart(s, k - 1)) + 1,
                      IF k = m + 1 THEN Len(s) ELSE NthStart(s, k) - 1)]

\* Array.prototype.join(' ')
RECURSIVE Join(_)
Join(ws) ==
    IF Len(ws) = 0 THEN <<>>
    ELSE IF Len(ws) = 1 THEN ws[1]
    ELSE ws[1] \o <<" ">> \o Join(Tail(ws))

-----------------------------------------------------------------------------
(* The n-gram extractor of the word-cloud tab.                             *)

W_project     == <<"p","r","o","j","e","c","t">>
W_ProjectC    == <<"P","r","o","j","e","c","t",",">>
W_retention   == <<"r","e","t","e","n","t","i","o","n">>
W_the         == <<"t","h","e">>
W_ml          == <<"m","l">>
W_constructor == <<"c","o","n","s","t","r","u","c","t","o","r">>

\* Words of the English list of the stopword package (the list is longer; these
\* are the ones the texts of the model use).
Stopwords ==
    { W_the, <<"a","n","d">>, <<"t","h","a","t">>, <<"f","o","r">>,
      <<"o","n">>, <<"o","f">>, <<"a">>, <<"i">> }

\* removeStopwords(words) of the stopword package: the words not on the list.
removeStopwords(ws) == SelectSeq(ws, LAMBDA w : toLowerCase(w) \notin Stopwords)

\* lines 44-45: the cleaned token sequence of a text
cleanWords(text) ==
    SelectSeq(removeStopwords(SplitWhitespace(StripNonAlpha(toLowerCase(text)))),
              LAMBDA w : Len(w) > 2)

\* A value stored in the ngrams object: a number, or (see Increment) a string.
Num(k) == [num |-> TRUE, n |-> k, s |-> <<>>]
Str(s) == [num |-> FALSE, n |-> 0, s |-> s]

\* `{}` inherits from Object.prototype: of the keys the extractor can build
\* (lower-case letters and spaces) one names an inherited property,
\* "constructor", whose value is the function Object.
InheritedKeys == {W_constructor}
\* String(Object), what `Object + 1` concatenates "1" to
ObjectFunctionString == <<"f","u","n","c","t","i","o","n"," ","O","b","j","e","c","t","(",")"," ","{"," ","[","n","a","t","i","v","e"," ","c","o","d","e","]"," ","}">>

HasOwn(ngrams, phrase) == \E j \in 1..Len(ngrams) : ngrams[j].text = phrase
OwnIndex(ngrams, phrase) == CHOOSE j \in 1..Len(ngrams) : ngrams[j].text = phrase

\* line 51: (ngrams[phrase] || 0) + 1. An own numeric count k gives k + 1.
\* A phrase not yet counted reads the prototype chain: undefined gives
\* 0 + 1, but the inherited function of "constructor" is truthy and `+ 1`
\* concatenates, and every later `+ 1` appends another "1" to that string.
IncrementMissing(phrase) ==
    IF phrase \in InheritedKeys THEN Str(ObjectFunctionString \o <<"1">>) ELSE Num(1)
IncrementOwn(v) == IF v.num THEN Num(v.n + 1) ELSE Str(v.s \o <<"1">>)

\* line 51: the assignment; a new key is appended (insertion order is the
\* order of Object.entries for keys that are not array indices).
Increment(ngrams, phrase) ==
    IF HasOwn(ngrams, phrase)
    THEN LET j == OwnIndex(ngrams, phrase)
         IN  [ngrams EXCEPT ![j].value = IncrementOwn(ngrams[j].value)]
    ELSE Append(ngrams, [text |-> phrase, value |-> IncrementMissing(phrase)])

\* the loop without the test of line 50: every phrase is counted
RECURSIVE CountFromIgnoringExcluded(_, _, _, _, _)
CountFromIgnoringExcluded(cw, n, excludedWords, i, ngrams) ==
    IF i > Len(cw) - n THEN ngrams
    ELSE CountFromIgnoringExcluded(cw, n, excludedWords, i + 1,
                                   Increment(ngrams, Join(Slice(cw, i, i + n))))

\* lines 48-53: the loop, from index i (0-based) on
RECURSIVE CountFrom(_, _, _, _, _)
CountFrom(cw, n, excludedWords, i, ngrams) ==
    IF i > Len(cw) - n THEN ngrams
    ELSE LET phrase == Join(Slice(cw, i, i + n))
         IN  CountFrom(cw, n, excludedWords, i + 1,
                       IF phrase \notin excludedWords
                       THEN Increment(ngrams, phrase)
                       ELSE ngrams)

\* lines 44-56: Object.entries(ngrams) before it is sorted
CountNgrams(text, n, excludedWords) ==
    CountFrom(cleanWords(text), n, excludedWords, 0, <<>>)

\* line 57: (a, b) => b.value - a.value. A string value makes the difference
\* NaN, which Array.prototype.sort treats as +0.
CompareFn(a, b) ==
    IF a.value.num /\ b.value.num THEN b.value.n - a.value.n ELSE 0

\* ECMAScript's "consistent comparison function" for these entries: with the
\* comparator above only transitivity of "compares equal" can fail.
ConsistentComparator(entries) ==
    \A i, j, k \in 1..Len(entries) :
        (CompareFn(entries[i], entries[j]) = 0 /\ CompareFn(entries[j], entries[k]) = 0)
            => CompareFn(entries[i], entries[k]) = 0

\* the stable sort: x goes before the first element that must follow it
RECURSIVE InsertSorted(_, _)
InsertSorted(sorted, x) ==
    IF Len(sorted) = 0 THEN <<x>>
    ELSE IF CompareFn(Head(sorted), x) <= 0
         THEN <<Head(sorted)>> \o InsertSorted(Tail(sorted), x)
         ELSE <<x>> \o sorted

RECURSIVE StableSort(_)
StableSort(entries) ==
    IF Len(entries) = 0 THEN <<>>
    ELSE InsertSorted(StableSort(SubSeq(entries, 1, Len(entries) - 1)),
                      entries[Len(entries)])

Reorderings(entries) ==
    LET k == Len(entries)
    IN  { [i \in 1..k |-> entries[p[i]]] :
            p \in {q \in [1..k -> 1..k] : \A i, j \in 1..k : q[i] = q[j] => i = j} }

\* line 57: Array.prototype.sort is stable for a consistent comparator; for
\* an inconsistent one the order is implementation-defined.
SortOutcomes(entries) ==
    IF ConsistentComparator(entries) THEN {StableSort(entries)} ELSE Reorderings(entries)

\* lines 43-59: generateNgrams, as the set of lists a call can return
\* (excludedWords is the state the closure reads).
generateNgrams(text, n, limit, excludedWords) ==
    { Slice(sorted, 0, limit) : sorted \in SortOutcomes(CountNgrams(text, n, excludedWords)) }

-----------------------------------------------------------------------------
(* The extractor applied to bounded inputs.                                *)

\* raw words: one that is lower-cased and stripped of punctuation, a plain one,
\* a stopword, a word of two letters, and the name of an inherited property
Vocabulary == {W_ProjectC, W_retention, W_the, W_ml, W_constructor}

RECURSIVE WordSeqs(_)
WordSeqs(k) ==
    IF k = 0 THEN {<<>>}
    ELSE LET shorter == WordSeqs(k - 1)
         IN  shorter \cup { Append(ws, w) : ws \in {x \in shorter : Len(x) = k - 1}, w \in Vocabulary }

NgramTexts == { Join(ws) : ws \in WordSeqs(MaxWords) }
\* the sizes processText passes (1, 2, 3) and the malformed ones (0, -1)
NgramSizes == {-1, 0, 1, 2, 3}

NgramInit ==
    /\ ngPhase = "input"
    /\ ngText \in NgramTexts
    /\ ngN \in NgramSizes
    /\ ngLimit \in 0..MaxLimit
    /\ ngExcluded = {}
    /\ ngResult = <<>>
    /\ ngBefore = <<>>
    /\ ngAdded = <<>>
    /\ ResumeIdle
    /\ AtsIdle
    /\ WordCloudIdle
    /\ activeTab = "wordcloud"

\* a call of generateNgrams
Extract ==
    /\ ngPhase = "input"
    /\ ngPhase' = "extracted"
    /\ ngResult' \in generateNgrams(ngText, ngN, ngLimit, ngExcluded)
    /\ UNCHANGED <<ngText, ngN, ngLimit, ngExcluded, ngBefore, ngAdded, rsVars, atsVars, wcVars>>

\* a phrase of the text is added to the excluded set and the text is
\* extracted again
ExcludeAndExtract ==
    /\ ngPhase \in {"extracted", "reextracted"}
    /\ Cardinality(ngExcluded) < MaxExcluded
    /\ LET table == CountNgrams(ngText, ngN, {})
       IN  \E j \in 1..Len(table) :
              /\ table[j].text \notin ngExcluded
              /\ ngAdded' = table[j].text
              /\ ngExcluded' = ngExcluded \cup {table[j].text}
              /\ ngResult' \in generateNgrams(ngText, ngN, ngLimit,
                                               ngExcluded \cup {table[j].text})
    /\ ngPhase' = "reextracted"
    /\ ngBefore' = ngResult
    /\ UNCHANGED <<ngText, ngN, ngLimit, rsVars, atsVars, wcVars>>

NgramNext == Extract \/ ExcludeAndExtract

SpecNgram == NgramInit /\ [][NgramNext]_vars

-----------------------------------------------------------------------------
(* Regular expressions of the resume tab, matched on characters.           *)

\* the character at a 1-based index; "" outside the string
CharAt(s, k) == IF k \in 1..Len(s) THEN s[k] ELSE ""

IsWordAt(s, k) == CharAt(s, k) \in WordChars
IsDigitAt(s, k) == CharAt(s, k) \in DigitChars

\* \b in front of the character at index k (k = Len(s) + 1: at the end)
WordBoundary(s, k) == IsWordAt(s, k - 1) # IsWordAt(s, k)

\* The text of a keyword is put into the pattern as it is (line 121), so
\* its characters are pattern syntax: of the metacharacters the model has
\* `.`, any character but a line terminator, and the quantifier `+`, which
\* has nothing to repeat at the start (after \b) and after another `+`.
LineTerminators == {"\n", "\r"}

Compiles(word) ==
    \A k \in 1..Len(word) : word[k] = "+" => (k > 1 /\ word[k - 1] # "+")

\* one character of a pattern against one character, without the flag i
AtomMatchesCaseSensitive(p, c) ==
    IF p = "." THEN c \notin LineTerminators ELSE c = p

\* one character of a pattern against one character, under the flag i
AtomMatches(p, c) ==
    IF p = "." THEN c \notin LineTerminators ELSE toLowerCaseChar(c) = toLowerCaseChar(p)

\* a pattern of letters, spaces and `.` without the flag i
LiteralAtCaseSensitive(s, k, pat) ==
    /\ k + Len(pat) - 1 <= Len(s)
    /\ \A j \in 1..Len(pat) : AtomMatchesCaseSensitive(pat[j], s[k + j - 1])

\* a pattern of letters, spaces and `.` under the flag i, in front of index k
LiteralAt(s, k, pat) ==
    /\ k + Len(pat) - 1 <= Len(s)
    /\ \A j \in 1..Len(pat) : AtomMatches(pat[j], s[k + j - 1])

\* new RegExp(`\\b${word}\\b`, 'gi') for a word of letters and spaces: the
\* length of its match at index k, 0 when it does not match there
WordRegexLen(s, k, word) ==
    IF WordBoundary(s, k) /\ LiteralAt(s, k, word) /\ WordBoundary(s, k + Len(word))
    THEN Len(word)
    ELSE 0

\* the index after the longest run of characters of a class that starts at k
RECURSIVE SkipWhile(_, _, _)
SkipWhile(s, k, class) ==
    IF CharAt(s, k) \in class THEN SkipWhile(s, k + 1, class) ELSE k

\* line 180, the lookahead \d{1,2}\/\d{1,2}\/\d{2,4} at index k
DateAt(s, k) ==
    \E a \in 1..2, b \in 1..2 :
        /\ \A j \in k..(k + a - 1) : IsDigitAt(s, j)
        /\ CharAt(s, k + a) = "/"
        /\ \A j \in (k + a + 1)..(k + a + b) : IsDigitAt(s, j)
        /\ CharAt(s, k + a + b + 1) = "/"
        /\ IsDigitAt(s, k + a + b + 2)
        /\ IsDigitAt(s, k + a + b + 3)

\* line 180, (?:,\d{3})* from index k: the index after the groups
RECURSIVE SkipThousands(_, _)
SkipThousands(s, k) ==
    IF CharAt(s, k) = "," /\ IsDigitAt(s, k + 1) /\ IsDigitAt(s, k + 2) /\ IsDigitAt(s, k + 3)
    THEN SkipThousands(s, k + 4)
    ELSE k

\* line 180, (?:\.\d+)? from index k
SkipDecimals(s, k) ==
    IF CharAt(s, k) = "." /\ IsDigitAt(s, k + 1)
    THEN SkipWhile(s, k + 1, DigitChars)
    ELSE k

\* line 180: the unit words of metricRegex, in the order of the alternation
MetricUnits ==
    << <<"p","e","r","c","e","n","t">>,
       <<"u","s","e","r","s">>,
       <<"c","u","s","t","o","m","e","r","s">>,
       <<"d","o","l","l","a","r","s">>,
       <<"r","e","v","e","n","u","e">>,
       <<"g","r","o","w","t","h">>,
       <<"i","n","c","r","e","a","s","e">>,
       <<"d","e","c","r","e","a","s","e">>,
       <<"i","m","p","r","o","v","e","m","e","n","t">> >>

\* line 180, (?:\s*%|\s+(?:percent|...))\b from index k: the index after the
\* match, 0 when there is none. The `%` branch ends in \b, so it needs a word
\* character right after the `%`.
MetricTailEnd(s, k) ==
    LET q == SkipWhile(s, k, WhitespaceChars)
    IN  IF CharAt(s, q) = "%" /\ WordBoundary(s, q + 1)
        THEN q + 1
        ELSE IF q > k /\ \E u \in 1..Len(MetricUnits) :
                            LiteralAt(s, q, MetricUnits[u]) /\ WordBoundary(s, q + Len(MetricUnits[u]))
             THEN q + Len(MetricUnits[CHOOSE u \in 1..Len(MetricUnits) :
                            LiteralAt(s, q, MetricUnits[u]) /\ WordBoundary(s, q + Len(MetricUnits[u]))])
             ELSE 0

\* line 180: metricRegex, the length of its match at index k (0: none). The
\* quantifiers are greedy, and none of them can give characters back: what
\* follows \d+, the groups and the decimals never starts with the character
\* they would give back.
MetricRegexLen(s, k) ==
    IF WordBoundary(s, k) /\ ~DateAt(s, k) /\ IsDigitAt(s, k)
    THEN LET end == MetricTailEnd(s, SkipDecimals(s, SkipThousands(s, SkipWhile(s, k, DigitChars))))
         IN  IF end = 0 THEN 0 ELSE end - k
    ELSE 0

\* The matches of a global regular expression in a string, given the length
\* of its match at every index: the leftmost match first, each search
\* resuming where the last match ended.
RECURSIVE ScanMatches(_, _)
ScanMatches(lens, from) ==
    LET hits == {k \in DOMAIN lens : k >= from /\ lens[k] > 0}
    IN  IF hits = {} THEN <<>>
        ELSE LET k == CHOOSE h \in hits : \A g \in hits : h <= g
             IN  <<[at |-> k, len |-> lens[k]]>> \o ScanMatches(lens, k + lens[k])

WordMatches(s, word) == ScanMatches([k \in 1..Len(s) |-> WordRegexLen(s, k, word)], 1)
MetricMatches(s) == ScanMatches([k \in 1..Len(s) |-> MetricRegexLen(s, k)], 1)

MatchText(s, m) == SubSeq(s, m.at, m.at + m.len - 1)
\* the offset the replace callback receives (0-based)
MatchOffset(m) == m.at - 1

RECURSIVE Concat(_)
Concat(parts) == IF Len(parts) = 0 THEN <<>> ELSE Head(parts) \o Concat(Tail(parts))

\* String.prototype.replace(regex, fn): s with match j replaced by repl[j]
ReplaceMatches(s, matches, repl) ==
    IF Len(matches) = 0 THEN s
    ELSE SubSeq(s, 1, matches[1].at - 1)
         \o Concat([j \in 1..Len(matches) |->
                repl[j] \o SubSeq(s, matches[j].at + matches[j].len,
                                  IF j < Len(matches) THEN matches[j + 1].at - 1 ELSE Len(s))])

-----------------------------------------------------------------------------
(* The rewriter of the resume tab.                                         *)

\* 86 characters: <mark class="bg-yellow-100 hover:bg-yellow-200 cursor-help relative group">\n          
KeywordMarkOpen ==
    <<"<","m","a","r","k"," ","c","l","a","s","s","=","\"","b","g","-","y","e","l","l","o","w","-","1",
       "0","0"," ","h","o","v","e","r",":","b","g","-","y","e","l","l","o","w","-","2","0","0"," ","c",
       "u","r","s","o","r","-","h","e","l","p"," ","r","e","l","a","t","i","v","e"," ","g","r","o","u",
       "p","\"",">","\n"," "," "," "," "," "," "," "," "," "," ">>

\* 181 characters: \n          <span class="hidden group-hover:block absolute z-10 bg-white p-2 rounded shadow-lg text-sm">\n            Matched keyword from Word Cloud\n          </span>\n        </mark>
KeywordMarkClose ==
    <<"\n"," "," "," "," "," "," "," "," "," "," ","<","s","p","a","n"," ","c","l","a","s","s","=","\"",
       "h","i","d","d","e","n"," ","g","r","o","u","p","-","h","o","v","e","r",":","b","l","o","c","k",
       " ","a","b","s","o","l","u","t","e"," ","z","-","1","0"," ","b","g","-","w","h","i","t","e"," ",
       "p","-","2"," ","r","o","u","n","d","e","d"," ","s","h","a","d","o","w","-","l","g"," ","t","e",
       "x","t","-","s","m","\"",">","\n"," "," "," "," "," "," "," "," "," "," "," "," ","M","a","t","c",
       "h","e","d"," ","k","e","y","w","o","r","d"," ","f","r","o","m"," ","W","o","r","d"," ","C","l",
       "o","u","d","\n"," "," "," "," "," "," "," "," "," "," ","<","/","s","p","a","n",">","\n"," "," ",
       " "," "," "," "," "," ","<","/","m","a","r","k",">">>

\* 84 characters: <mark class="bg-green-100 hover:bg-green-200 cursor-help relative group">\n          
EnhanceMarkOpen ==
    <<"<","m","a","r","k"," ","c","l","a","s","s","=","\"","b","g","-","g","r","e","e","n","-","1","0",
       "0"," ","h","o","v","e","r",":","b","g","-","g","r","e","e","n","-","2","0","0"," ","c","u","r",
       "s","o","r","-","h","e","l","p"," ","r","e","l","a","t","i","v","e"," ","g","r","o","u","p","\"",
       ">","\n"," "," "," "," "," "," "," "," "," "," ">>

\* 127 characters: \n          <span class="hidden group-hover:block absolute z-10 bg-white p-2 rounded shadow-lg text-sm">\n            Original: "
EnhanceMarkMiddle ==
    <<"\n"," "," "," "," "," "," "," "," "," "," ","<","s","p","a","n"," ","c","l","a","s","s","=","\"",
       "h","i","d","d","e","n"," ","g","r","o","u","p","-","h","o","v","e","r",":","b","l","o","c","k",
       " ","a","b","s","o","l","u","t","e"," ","z","-","1","0"," ","b","g","-","w","h","i","t","e"," ",
       "p","-","2"," ","r","o","u","n","d","e","d"," ","s","h","a","d","o","w","-","l","g"," ","t","e",
       "x","t","-","s","m","\"",">","\n"," "," "," "," "," "," "," "," "," "," "," "," ","O","r","i","g",
       "i","n","a","l",":"," ","\"">>

\* 80 characters: "<br>\n            Enhanced for stronger impact\n          </span>\n        </mark>
EnhanceMarkClose ==
    <<"\"","<","b","r",">","\n"," "," "," "," "," "," "," "," "," "," "," "," ","E","n","h","a","n","c",
       "e","d"," ","f","o","r"," ","s","t","r","o","n","g","e","r"," ","i","m","p","a","c","t","\n"," ",
       " "," "," "," "," "," "," "," "," ","<","/","s","p","a","n",">","\n"," "," "," "," "," "," "," ",
       " ","<","/","m","a","r","k",">">>

\* 80 characters: <mark class="bg-blue-100 hover:bg-blue-200 cursor-help relative group">\n        
MetricMarkOpen ==
    <<"<","m","a","r","k"," ","c","l","a","s","s","=","\"","b","g","-","b","l","u","e","-","1","0","0",
       " ","h","o","v","e","r",":","b","g","-","b","l","u","e","-","2","0","0"," ","c","u","r","s","o",
       "r","-","h","e","l","p"," ","r","e","l","a","t","i","v","e"," ","g","r","o","u","p","\"",">","\n",
       " "," "," "," "," "," "," "," ">>

\* 166 characters: \n        <span class="hidden group-hover:block absolute z-10 bg-white p-2 rounded shadow-lg text-sm">\n          Quantifiable Achievement\n        </span>\n      </mark>
MetricMarkClose ==
    <<"\n"," "," "," "," "," "," "," "," ","<","s","p","a","n"," ","c","l","a","s","s","=","\"","h","i",
       "d","d","e","n"," ","g","r","o","u","p","-","h","o","v","e","r",":","b","l","o","c","k"," ","a",
       "b","s","o","l","u","t","e"," ","z","-","1","0"," ","b","g","-","w","h","i","t","e"," ","p","-",
       "2"," ","r","o","u","n","d","e","d"," ","s","h","a","d","o","w","-","l","g"," ","t","e","x","t",
       "-","s","m","\"",">","\n"," "," "," "," "," "," "," "," "," "," ","Q","u","a","n","t","i","f","i",
       "a","b","l","e"," ","A","c","h","i","e","v","e","m","e","n","t","\n"," "," "," "," "," "," "," ",
       " ","<","/","s","p","a","n",">","\n"," "," "," "," "," "," ","<","/","m","a","r","k",">">>

Dots == <<".", ".", ".">>
\* lines 123, 162, 182: the characters of context kept on each side
ContextRadius == 30

\* lines 123, 162, 182: source.slice(Math.max(0, offset - 30), offset + match.length + 30)
\* wrapped as `...${context}...`
ContextOf(source, m) ==
    Dots \o Slice(source, Max(0, MatchOffset(m) - ContextRadius),
                  MatchOffset(m) + m.len + ContextRadius) \o Dots

\* lines 122-136: the callback of one keyword match in `processed`; the
\* context is sliced from `text`, the argument of processText
KeywordChange(text, processed, m) ==
    [original |-> MatchText(processed, m),
     optimized |-> MatchText(processed, m),
     type |-> "keyword",
     context |-> ContextOf(text, m)]

KeywordMark(match) == KeywordMarkOpen \o match \o KeywordMarkClose

\* lines 120-137: selectedWords.forEach, from the k-th keyword on
RECURSIVE processWords(_, _, _, _, _)
processWords(text, keywords, k, processed, newChanges) ==
    IF k > Len(keywords)
    THEN [processed |-> processed, newChanges |-> newChanges]
    ELSE LET matches == WordMatches(processed, keywords[k])
         IN  processWords(text, keywords, k + 1,
                 ReplaceMatches(processed, matches,
                     [j \in 1..Len(matches) |-> KeywordMark(MatchText(processed, matches[j]))]),
                 newChanges \o [j \in 1..Len(matches) |-> KeywordChange(text, processed, matches[j])])

\* lines 115-137: processText up to its two state updates
processText(text, keywords) == processWords(text, keywords, 1, text, <<>>)

\* lines 148-155: actionVerbReplacements, in the order of Object.entries
actionVerbReplacements ==
    << [weak |-> <<"w","o","r","k","e","d">>,
        strong |-> <<<<"s","p","e","a","r","h","e","a","d","e","d">>,
                     <<"e","x","e","c","u","t","e","d">>,
                     <<"i","m","p","l","e","m","e","n","t","e","d">>>>],
       [weak |-> <<"m","a","d","e">>,
        strong |-> <<<<"c","r","e","a","t","e","d">>,
                     <<"d","e","v","e","l","o","p","e","d">>,
                     <<"e","s","t","a","b","l","i","s","h","e","d">>>>],
       [weak |-> <<"h","e","l","p","e","d">>,
        strong |-> <<<<"f","a","c","i","l","i","t","a","t","e","d">>,
                     <<"s","u","p","p","o","r","t","e","d">>,
                     <<"g","u","i","d","e","d">>>>],
       [weak |-> <<"r","e","s","p","o","n","s","i","b","l","e"," ","f","o","r">>,
        strong |-> <<<<"l","e","d">>,
                     <<"m","a","n","a","g","e","d">>,
                     <<"o","r","c","h","e","s","t","r","a","t","e","d">>>>],
       [weak |-> <<"d","i","d">>,
        strong |-> <<<<"a","c","c","o","m","p","l","i","s","h","e","d">>,
                     <<"a","c","h","i","e","v","e","d">>,
                     <<"c","o","m","p","l","e","t","e","d">>>>],
       [weak |-> <<"i","m","p","r","o","v","e","d">>,
        strong |-> <<<<"o","p","t","i","m","i","z","e","d">>,
                     <<"e","n","h","a","n","c","e","d">>,
                     <<"s","t","r","e","a","m","l","i","n","e","d">>>>] >>

\* line 161: Math.floor(Math.random() * strong.length), every value it can take
RandomIndexes(strong) == 0..(Len(strong) - 1)

EnhanceMark(replacement, match) ==
    EnhanceMarkOpen \o replacement \o EnhanceMarkMiddle \o match \o EnhanceMarkClose

\* lines 160-176: the replace of one weak phrase, for one choice of the
\* random indexes; the context is sliced from optimizedText, here `rendered`
EnhanceWith(rendered, acc, entry, matches, choice) ==
    [enhanced |->
        ReplaceMatches(acc.enhanced, matches,
            [j \in 1..Len(matches) |->
                EnhanceMark(entry.strong[choice[j] + 1], MatchText(acc.enhanced, matches[j]))]),
     newChanges |->
        acc.newChanges \o
            [j \in 1..Len(matches) |->
                [original |-> MatchText(acc.enhanced, matches[j]),
                 optimized |-> entry.strong[choice[j] + 1],
                 type |-> "enhancement",
                 context |-> ContextOf(rendered, matches[j])]]]

\* lines 158-177: Object.entries(actionVerbReplacements).forEach from the
\* k-th entry on, as the set of results over all random choices
RECURSIVE enhanceVerbs(_, _, _)
enhanceVerbs(rendered, k, accs) ==
    IF k > Len(actionVerbReplacements) THEN accs
    ELSE enhanceVerbs(rendered, k + 1,
            UNION { LET entry == actionVerbReplacements[k]
                        matches == WordMatches(acc.enhanced, entry.weak)
                    IN  { EnhanceWith(rendered, acc, entry, matches, choice) :
                            choice \in [1..Len(matches) -> RandomIndexes(entry.strong)] }
                    : acc \in accs })

MetricMark(match) == MetricMarkOpen \o match \o MetricMarkClose

\* lines 180-195: the metric pass over `enhanced`
highlightMetrics(rendered, acc) ==
    LET matches == MetricMatches(acc.enhanced)
    IN  [enhanced |->
            ReplaceMatches(acc.enhanced, matches,
                [j \in 1..Len(matches) |-> MetricMark(MatchText(acc.enhanced, matches[j]))]),
         newChanges |->
            acc.newChanges \o
                [j \in 1..Len(matches) |->
                    [original |-> MatchText(acc.enhanced, matches[j]),
                     optimized |-> MatchText(acc.enhanced, matches[j]),
                     type |-> "metric",
                     context |-> ContextOf(rendered, matches[j])]]]

\* lines 143-195: handleEnhance up to its two state updates, as the set of
\* results over all random choices
handleEnhance(rendered, log) ==
    { highlightMetrics(rendered, acc) :
        acc \in enhanceVerbs(rendered, 1, {[enhanced |-> rendered, newChanges |-> log]}) }

\* DOMPurify.sanitize, on the markup of the model: a script element (to its
\* closing tag, or to the end when it is not closed) is removed; text and the
\* p, mark, span and br elements with their class attributes are kept as
\* they are.
ScriptOpen == <<"<","s","c","r","i","p","t",">">>
ScriptClose == <<"<","/","s","c","r","i","p","t",">">>

StartsAt(s, k, pat) == k + Len(pat) - 1 <= Len(s) /\ SubSeq(s, k, k + Len(pat) - 1) = pat
Occurs(s, pat) == \E k \in 1..Len(s) : StartsAt(s, k, pat)
FirstAt(s, pat, from) ==
    LET hits == {k \in from..Len(s) : StartsAt(s, k, pat)}
    IN  IF hits = {} THEN 0 ELSE CHOOSE h \in hits : \A g \in hits : h <= g

RECURSIVE sanitize(_)
sanitize(s) ==
    LET open == FirstAt(s, ScriptOpen, 1)
    IN  IF open = 0 THEN s
        ELSE LET close == FirstAt(s, ScriptClose, open)
             IN  IF close = 0 THEN SubSeq(s, 1, open - 1)
                 ELSE SubSeq(s, 1, open - 1)
                      \o sanitize(SubSeq(s, close + Len(ScriptClose), Len(s)))

-----------------------------------------------------------------------------
(* The resume tab as a state machine.                                      *)

W_keyword     == <<"k","e","y","w","o","r","d">>
W_worked      == <<"w","o","r","k","e","d">>

\* Keyword lists the word-cloud tab can hand over (lower-case words longer
\* than two letters that are no stopwords, without repetition).
KeywordLists ==
    { <<>>, <<W_project, W_retention>>, <<W_project, W_keyword>>, <<W_worked>> }

\* Pieces of document text: weak phrases, keywords, numbers, a unit word, a
\* date and a script element.
Pieces ==
    { W_worked, <<"R","e","s","p","o","n","s","i","b","l","e"," ","f","o","r">>, W_project,
      <<"4","0">>, <<"u","s","e","r","s">>, <<"3","/","1","5","/","2","0","2","4">>, <<"<","s","c","r","i","p","t",">","x","<","/","s","c","r","i","p","t",">">> }

\* the two example texts of the specification
ExampleDate == <<"3","/","1","5","/","2","0","2","4"," ","s","a","w"," ","a"," ","2","0","%"," ","i","n","c","r",
       "e","a","s","e">>
ExampleRetention ==
    <<"I"," ","w","o","r","k","e","d"," ","o","n"," ","a"," ","p","r","o","j","e","c","t"," ","t","h",
       "a","t"," ","i","m","p","r","o","v","e","d"," ","1","5","%"," ","o","f"," ","c","u","s","t","o",
       "m","e","r"," ","r","e","t","e","n","t","i","o","n",".">>

RECURSIVE PieceSeqs(_)
PieceSeqs(k) ==
    IF k = 0 THEN {<<>>}
    ELSE LET shorter == PieceSeqs(k - 1)
         IN  shorter \cup { Append(ps, p) : ps \in {x \in shorter : Len(x) = k - 1}, p \in Pieces }

\* a text with a weak phrase in front of a metric
ExampleMetric == <<"w","o","r","k","e","d"," ","w","i","t","h"," ","4","0"," ","u","s","e","r","s">>

Bodies == { Join(ps) : ps \in PieceSeqs(MaxPieces) } \cup {ExampleDate, ExampleRetention, ExampleMetric}

\* mammoth.convertToHtml(...).value: the text of the document as a paragraph
\* (an empty document converts to the empty string)
Documents == { IF Len(b) = 0 THEN <<>> ELSE <<"<","p",">">> \o b \o <<"<","/","p",">">> : b \in Bodies }

ResumeInit ==
    /\ selectedWords \in KeywordLists
    /\ uploading = FALSE
    /\ uploaded = <<>>
    /\ resumeText = <<>>
    /\ optimizedText = <<>>
    /\ changes = <<>>
    /\ lastOp = "none"
    /\ enhanceInput = <<>>
    /\ changesBefore = <<>>
    /\ enhances = 0
    /\ NgramIdle
    /\ AtsIdle
    /\ WordCloudIdle
    /\ activeTab = "resume"

\* lines 77-83: handleFileUpload up to its first await
UploadStart ==
    /\ ~uploading
    /\ uploading' = TRUE
    /\ changes' = <<>>
    /\ lastOp' = "uploadStart"
    /\ UNCHANGED <<selectedWords, uploaded, resumeText, optimizedText, enhanceInput,
                   changesBefore, enhances, ngVars, atsVars, wcVars>>

\* the upload without the calls of DOMPurify.sanitize on lines 91 and 140
UploadFinishUnsanitized ==
    /\ uploading
    /\ \E value \in Documents :
          LET result == processText(value, selectedWords)
          IN  /\ uploaded' = value
              /\ resumeText' = value
              /\ changes' = result.newChanges
              /\ optimizedText' = result.processed
    /\ uploading' = FALSE
    /\ lastOp' = "upload"
    /\ enhanceInput' = <<>>
    /\ changesBefore' = <<>>
    /\ enhances' = 0
    /\ UNCHANGED <<selectedWords, ngVars, atsVars, wcVars>>

\* lines 85-93 and 115-140: the rest of handleFileUpload for a .docx file,
\* with the call of processText
UploadFinish ==
    /\ uploading
    /\ \E value \in Documents :
          LET cleanHtml == sanitize(value)
              result == processText(cleanHtml, selectedWords)
          IN  /\ uploaded' = value
              /\ resumeText' = cleanHtml
              /\ IF \A k \in 1..Len(selectedWords) : Compiles(selectedWords[k])
                 THEN /\ changes' = result.newChanges
                      /\ optimizedText' = sanitize(result.processed)
                      /\ lastOp' = "upload"
                 \* new RegExp throws in processText: the catch of lines 96-99
                 \* reports 'Error processing file. Please try again.'
                 ELSE /\ UNCHANGED <<changes, optimizedText>>
                      /\ lastOp' = "failed"
    /\ uploading' = FALSE
    /\ enhanceInput' = <<>>
    /\ changesBefore' = <<>>
    /\ enhances' = 0
    /\ UNCHANGED <<selectedWords, ngVars, atsVars, wcVars>>

\* lines 94-100: the file is no .docx, or its conversion throws: an alert
UploadRejected ==
    /\ uploading
    /\ uploading' = FALSE
    /\ lastOp' = "rejected"
    /\ UNCHANGED <<selectedWords, uploaded, resumeText, optimizedText, changes,
                   enhanceInput, changesBefore, enhances, ngVars, atsVars, wcVars>>

\* handleEnhance starting from an empty log instead of [...changes]
EnhanceFreshLog ==
    /\ enhances < MaxEnhance
    /\ \E result \in handleEnhance(optimizedText, <<>>) :
          /\ optimizedText' = sanitize(result.enhanced)
          /\ changes' = result.newChanges
    /\ enhanceInput' = optimizedText
    /\ changesBefore' = changes
    /\ lastOp' = "enhance"
    /\ enhances' = enhances + 1
    /\ UNCHANGED <<selectedWords, uploading, uploaded, resumeText, ngVars, atsVars, wcVars>>

\* lines 143-199: handleEnhance
Enhance ==
    /\ enhances < MaxEnhance
    /\ \E result \in handleEnhance(optimizedText, changes) :
          /\ optimizedText' = sanitize(result.enhanced)
          /\ changes' = result.newChanges
    /\ enhanceInput' = optimizedText
    /\ changesBefore' = changes
    /\ lastOp' = "enhance"
    /\ enhances' = enhances + 1
    /\ UNCHANGED <<selectedWords, uploading, uploaded, resumeText, ngVars, atsVars, wcVars>>

ResumeNext == UploadStart \/ UploadFinish \/ UploadRejected \/ Enhance

SpecResume == ResumeInit /\ [][ResumeNext]_vars

\* The resume tab under keyword lists that another caller of the component
\* can pass in its prop (line 30): texts with pattern metacharacters. The
\* word-cloud tab itself only saves phrases of letters and spaces.
W_worDotEd == <<"w","o","r",".","e","d">>
W_cPlusPlus == <<"c","+","+">>

PatternKeywordLists == { <<W_worDotEd>>, <<W_cPlusPlus>>, <<W_project, W_cPlusPlus>> }

PatternInit ==
    /\ selectedWords \in PatternKeywordLists
    /\ uploading = FALSE
    /\ uploaded = <<>>
    /\ resumeText = <<>>
    /\ optimizedText = <<>>
    /\ changes = <<>>
    /\ lastOp = "none"
    /\ enhanceInput = <<>>
    /\ changesBefore = <<>>
    /\ enhances = 0
    /\ NgramIdle
    /\ AtsIdle
    /\ WordCloudIdle
    /\ activeTab = "resume"

SpecPattern == PatternInit /\ [][ResumeNext]_vars

-----------------------------------------------------------------------------
(* Claims about the extractor.                                             *)

Texts(result) == {result[j].text : j \in 1..Len(result)}

RECURSIVE SumValues(_)
SumValues(result) ==
    IF Len(result) = 0 THEN 0 ELSE Head(result).value.n + SumValues(Tail(result))

\* the number of n-length windows of the cleaned token sequence
Windows(text, n) == Max(0, Len(cleanWords(text)) - n + 1)

\* C1: with n >= 1 and an empty excluded set the extractor returns at most
\* `limit` items, every returned count is a number >= 1, and the counts sum
\* to at most the number of n-length windows of the cleaned token sequence.
C1_ExtractBounds ==
    (ngPhase = "extracted" /\ ngN >= 1) =>
        /\ Len(ngResult) <= ngLimit
        /\ \A j \in 1..Len(ngResult) : ngResult[j].value.num /\ ngResult[j].value.n >= 1
        /\ SumValues(ngResult) <= Windows(ngText, ngN)

\* the value a result lists for a phrase; a phrase it does not list counts 0
ValueIn(result, phrase) ==
    IF phrase \in Texts(result)
    THEN result[CHOOSE j \in 1..Len(result) : result[j].text = phrase].value
    ELSE Num(0)

\* C2 as stated: no excluded phrase is in the result; the phrase added to
\* the excluded set does not gain count, and every other phrase has the same
\* count in the result after the addition as in the result before it.
C2_ExclusionAsStated ==
    (ngPhase = "reextracted" /\ ngN >= 1) =>
        /\ Texts(ngResult) \cap ngExcluded = {}
        /\ LET after == ValueIn(ngResult, ngAdded)
               before == ValueIn(ngBefore, ngAdded)
           IN  after = Num(0) \/ (after.num /\ before.num /\ after.n <= before.n)
        /\ \A phrase \in (Texts(ngResult) \cup Texts(ngBefore)) \ {ngAdded} :
              ValueIn(ngResult, phrase) = ValueIn(ngBefore, phrase)

\* C2, amended: no excluded phrase is in the result; the phrase added to the
\* excluded set is absent from the next extraction; the count accumulated for
\* every other phrase is unchanged (the count table is the earlier one
\* without the added phrase), so a phrase listed by both results has the same
\* count in both. Which other phrases the limit lets through can change.
C2_Exclusion ==
    /\ ngPhase # "input" => Texts(ngResult) \cap ngExcluded = {}
    /\ ngPhase = "reextracted" =>
        /\ ngAdded \notin Texts(ngResult)
        /\ CountNgrams(ngText, ngN, ngExcluded)
             = SelectSeq(CountNgrams(ngText, ngN, ngExcluded \ {ngAdded}),
                         LAMBDA e : e.text # ngAdded)
        /\ \A phrase \in Texts(ngResult) \cap Texts(ngBefore) :
              ValueIn(ngResult, phrase) = ValueIn(ngBefore, phrase)

\* C2's case: a listed phrase was excluded, and a phrase the limit had cut
\* off is listed in its place beside one that was listed before.
C2_Witness ==
    /\ ngPhase = "reextracted"
    /\ ngAdded \in Texts(ngBefore)
    /\ Texts(ngResult) \ Texts(ngBefore) # {}
    /\ Texts(ngResult) \cap Texts(ngBefore) # {}

\* the 0-based index of the first window that yields the phrase
Discovery(text, n, phrase) ==
    LET cw == cleanWords(text)
    IN  CHOOSE i \in 0..Len(cw) :
            /\ Join(Slice(cw, i, i + n)) = phrase
            /\ \A k \in 0..(i - 1) : Join(Slice(cw, k, k + n)) # phrase

\* a goes before b: a larger count, or the same count and found earlier
RanksBefore(text, n, a, b) ==
    /\ a.value.num
    /\ b.value.num
    /\ \/ a.value.n > b.value.n
       \/ /\ a.value.n = b.value.n
          /\ Discovery(text, n, a.text) < Discovery(text, n, b.text)

\* C3: the result is sorted by count in non-increasing order, phrases of
\* equal count in the order of their first discovery, and it is the first
\* `limit` items of that order.
C3_SortedByCount ==
    (ngPhase # "input" /\ ngN >= 1) =>
        LET table == CountNgrams(ngText, ngN, ngExcluded)
        IN  /\ Len(ngResult) = Min(ngLimit, Len(table))
            /\ \A j \in 1..(Len(ngResult) - 1) :
                  RanksBefore(ngText, ngN, ngResult[j], ngResult[j + 1])
            /\ \A j \in 1..Len(table) :
                  \/ table[j] \in {ngResult[k] : k \in 1..Len(ngResult)}
                  \/ \A k \in 1..Len(ngResult) :
                        RanksBefore(ngText, ngN, ngResult[k], table[j])

\* C4: a call with n < 1 is rejected: it returns no list.
C4_RejectsBadSize == ngN < 1 => ngPhase = "input"

-----------------------------------------------------------------------------
(* Claims about the rewriter.                                              *)

\* the entries handleEnhance has appended to the change log
NewChanges == SubSeq(changes, Len(changesBefore) + 1, Len(changes))

NewOfType(type) == {j \in 1..Len(NewChanges) : NewChanges[j].type = type}

\* a run of digits closed by a per-cent sign, from a to b, that no digit
\* precedes
PercentFigures(s) ==
    UNION { { <<a, b>> : a \in { i \in 1..(b - 1) :
                                    /\ \A j \in i..(b - 1) : s[j] \in DigitChars
                                    /\ (i = 1 \/ s[i - 1] \notin DigitChars) } }
            : b \in { i \in 1..Len(s) : s[i] = "%" } }

\* C5: after handleEnhance, every number immediately followed by '%' in the
\* text it read has a Change of type metric with original = optimized = the
\* matched text, whatever follows the '%' (white space, punctuation, the end,
\* or markup).
C5_PercentFlagged ==
    lastOp = "enhance" =>
        \A f \in PercentFigures(enhanceInput) :
            \E j \in NewOfType("metric") :
                /\ NewChanges[j].original = NewChanges[j].optimized
                /\ Occurs(NewChanges[j].original, SubSeq(enhanceInput, f[1], f[2]))

IsDigits(t, lo, hi) == Len(t) >= lo /\ Len(t) <= hi /\ \A j \in 1..Len(t) : t[j] \in DigitChars

\* 1-2 digits / 1-2 digits / 2-4 digits
IsDateToken(t) ==
    \E i \in 2..3, j \in 4..6 :
        /\ i < j /\ j < Len(t)
        /\ t[i] = "/" /\ t[j] = "/"
        /\ IsDigits(SubSeq(t, 1, i - 1), 1, 2)
        /\ IsDigits(SubSeq(t, i + 1, j - 1), 1, 2)
        /\ IsDigits(SubSeq(t, j + 1, Len(t)), 2, 4)

\* the date-like tokens of s, from a to b
DateTokens(s) ==
    UNION { { <<a, b>> : b \in { i \in (a + 5)..Min(Len(s), a + 9) : IsDateToken(SubSeq(s, a, i)) } }
            : a \in { i \in 1..Len(s) : s[i] \in DigitChars } }

\* t occurs in s, and every occurrence of it starts inside a date-like token
TakenFromDate(s, t) ==
    /\ Occurs(s, t)
    /\ \A k \in 1..Len(s) :
          StartsAt(s, k, t) => \E d \in DateTokens(s) : d[1] <= k /\ k <= d[2]

\* C6: after handleEnhance, no Change of type metric has a matched text that
\* is taken from a date-like token of the text it read, also when a unit word
\* follows the date.
C6_NoMetricFromDate ==
    lastOp = "enhance" =>
        \A j \in NewOfType("metric") : ~TakenFromDate(enhanceInput, NewChanges[j].original)

\* C7: in every state, the original of every Change of the change log is a
\* literal substring of the text of the uploaded document, so none comes from
\* text a substitution has inserted.
C7_OriginalFromInput ==
    \A j \in 1..Len(changes) : Occurs(resumeText, changes[j].original)

\* the window of text from 30 characters before the occurrence of t at k to
\* 30 characters after it, between the dots
WindowAt(text, k, t) ==
    Dots \o SubSeq(text, Max(1, k - ContextRadius), Min(Len(text), k + Len(t) - 1 + ContextRadius))
         \o Dots

\* C8: after processText, every Change is of type keyword with original =
\* optimized, and the context of a Change whose original is in the text is
\* the window of the text around an occurrence of it, for every keyword of
\* the list.
C8_KeywordContext ==
    lastOp = "upload" =>
        \A j \in 1..Len(changes) :
            /\ changes[j].type = "keyword"
            /\ changes[j].original = changes[j].optimized
            /\ Occurs(resumeText, changes[j].original) =>
                  \E k \in 1..Len(resumeText) :
                      /\ StartsAt(resumeText, k, changes[j].original)
                      /\ changes[j].context = WindowAt(resumeText, k, changes[j].original)

\* the whole-word occurrences of a phrase in s, letter case ignored
PhraseOccurrences(s, phrase) ==
    { k \in 1..Len(s) :
        /\ k + Len(phrase) - 1 <= Len(s)
        /\ toLowerCase(SubSeq(s, k, k + Len(phrase) - 1)) = phrase
        /\ (k = 1 \/ s[k - 1] \notin WordChars)
        /\ (k + Len(phrase) > Len(s) \/ s[k + Len(phrase)] \notin WordChars) }

StrongOf(entry) == {entry.strong[i] : i \in 1..Len(entry.strong)}

\* C9: handleEnhance keeps the log it found and appends, for every weak phrase
\* of the verb map, one Change of type enhancement per whole-word,
\* case-insensitive occurrence of the phrase in the text it read; the original
\* of each is the phrase as matched and its optimized value is one of the
\* candidates of that phrase, whatever the random choice.
C9_OneEnhancementPerMatch ==
    lastOp = "enhance" =>
        /\ SubSeq(changes, 1, Len(changesBefore)) = changesBefore
        /\ \A e \in 1..Len(actionVerbReplacements) :
              LET entry == actionVerbReplacements[e]
                  emitted == {j \in NewOfType("enhancement") :
                                 toLowerCase(NewChanges[j].original) = entry.weak}
              IN  /\ Cardinality(emitted) = Cardinality(PhraseOccurrences(enhanceInput, entry.weak))
                  /\ \A j \in emitted :
                        /\ NewChanges[j].optimized \in StrongOf(entry)
                        /\ Occurs(enhanceInput, NewChanges[j].original)
        /\ \A j \in NewOfType("enhancement") :
              \E e \in 1..Len(actionVerbReplacements) :
                  toLowerCase(NewChanges[j].original) = actionVerbReplacements[e].weak

\* handleEnhance has replaced a capitalised "Responsible for" and one more
\* weak phrase
C9_Witness ==
    /\ lastOp = "enhance"
    /\ Cardinality(NewOfType("enhancement")) >= 2
    /\ \E j \in NewOfType("enhancement") :
          /\ NewChanges[j].original = <<"R","e","s","p","o","n","s","i","b","l","e"," ","f","o","r">>
          /\ NewChanges[j].optimized \in {<<"l","e","d">>, <<"m","a","n","a","g","e","d">>,
                                          <<"o","r","c","h","e","s","t","r","a","t","e","d">>}

\* C10: in every state optimizedText is an output of the sanitizer and holds
\* no script element, and the text the keyword pass starts from is the
\* sanitized document.
C10_Sanitized ==
    /\ optimizedText = sanitize(optimizedText)
    /\ ~Occurs(optimizedText, ScriptOpen)
    /\ resumeText = sanitize(uploaded)
    /\ ~Occurs(resumeText, ScriptOpen)

\* a document with a script element was uploaded and highlighted
C10_Witness ==
    /\ lastOp \in {"upload", "enhance"}
    /\ Occurs(uploaded, ScriptOpen)
    /\ Len(changes) > 0
    /\ Len(optimizedText) > Len(resumeText)

-----------------------------------------------------------------------------
(* Claims about the rewriter under keywords with pattern syntax.           *)

\* C11: every keyword is matched as the literal text it is, so the original
\* of every keyword Change is a keyword of the list up to letter case, and no
\* upload ends in the unspecific failure of the catch because a keyword does
\* not compile.
C11_KeywordsEscaped ==
    /\ lastOp # "failed"
    /\ lastOp = "upload" =>
          \A j \in 1..Len(changes) :
              changes[j].type = "keyword" =>
                  \E k \in 1..Len(selectedWords) :
                      toLowerCase(changes[j].original) = toLowerCase(selectedWords[k])

\* the first half of C11 alone: no keyword Change for a text that is not a
\* keyword
C11_NoWildcardMatch ==
    lastOp = "upload" =>
        \A j \in 1..Len(changes) :
            \E k \in 1..Len(selectedWords) :
                toLowerCase(changes[j].original) = toLowerCase(selectedWords[k])

-----------------------------------------------------------------------------
(* The scoring of the ATS tab.                                             *)

\* a / b of two counts, a <= b: 0 / 0 is NaN
Quotient(a, b) == Frac(a, b)
\* f * 100
Times100(f) == Frac(f.num * 100, f.den)
\* f + g; a NaN operand gives NaN
Plus(f, g) == Frac(f.num * g.den + g.num * f.den, f.den * g.den)
\* f / k for a positive integer k
DividedBy(f, k) == Frac(f.num, f.den * k)

\* the characters beyond \x7F the texts of the model hold: U+2022 and U+00B7
Bullet == "U+2022"
MiddleDot == "U+00B7"
NonAsciiChars == {Bullet, MiddleDot}
\* [•·-]
BulletChars == {Bullet, MiddleDot, "-"}

\* String.prototype.includes
Includes(s, pat) == Len(pat) = 0 \/ Occurs(s, pat)

\* ^ and $ under the flag m, in front of index k
LineStart(s, k) == k = 1 \/ (k - 1 <= Len(s) /\ s[k - 1] \in LineTerminators)
LineEnd(s, k) == k = Len(s) + 1 \/ (k <= Len(s) /\ s[k] \in LineTerminators)

\* lines 52, 53: [A-Z][^a-z]+:?$ at index p. The class [^a-z] takes line
\* terminators and the colon as well, so the optional colon adds no match.
HeadingAt(s, p) ==
    /\ p <= Len(s)
    /\ s[p] \in UpperLetters
    /\ \E q \in (p + 1)..Len(s) :
          /\ \A j \in (p + 1)..q : s[j] \notin LowerLetters
          /\ LineEnd(s, q + 1)

\* line 51: /^.+?\n/
HeaderRegex(s) ==
    \E k \in 2..Len(s) : s[k] = "\n" /\ \A j \in 1..(k - 1) : s[j] \notin LineTerminators
\* line 52: /^[A-Z][^a-z]+:?$/m
SectionHeadingRegex(s) == \E p \in 1..Len(s) : LineStart(s, p) /\ HeadingAt(s, p)
\* line 53: /^(?![A-Z][^a-z]+:?$).+$/m
BodyTextRegex(s) ==
    \E p \in 1..Len(s) : LineStart(s, p) /\ s[p] \notin LineTerminators /\ ~HeadingAt(s, p)
\* line 54: /^[•·-].+$/m
BulletPointRegex(s) ==
    \E p \in 1..Len(s) :
        LineStart(s, p) /\ s[p] \in BulletChars /\ p < Len(s) /\ s[p + 1] \notin LineTerminators

CountTrue(flags) == Cardinality({j \in 1..Len(flags) : flags[j]})

\* lines 49-66: analyzeReadability, the value it returns
analyzeReadability(text) ==
    LET checks == <<HeaderRegex(text), SectionHeadingRegex(text), BodyTextRegex(text),
                    BulletPointRegex(text)>>
    IN  Times100(Quotient(CountTrue(checks), Len(checks)))

\* lines 70-73: /font-family:\s*NAME/i
FontRegex(s, name) ==
    LET declaration == <<"f","o","n","t","-","f","a","m","i","l","y",":">>
    IN  \E k \in 1..Len(s) :
            /\ LiteralAt(s, k, declaration)
            /\ LiteralAt(s, SkipWhile(s, k + Len(declaration), WhitespaceChars), name)

allowedFonts ==
    << <<"C","a","l","i","b","r","i">>,
       <<"A","r","i","a","l">>,
       <<"T","i","m","e","s"," ","N","e","w"," ","R","o","m","a","n">>,
       <<"H","e","l","v","e","t","i","c","a">> >>

\* lines 68-83: analyzeFonts, the value it returns
analyzeFonts(text) ==
    LET checks == [j \in 1..Len(allowedFonts) |-> FontRegex(text, allowedFonts[j])]
    IN  IF CountTrue(checks) > 0 THEN Frac(100, 1) ELSE Frac(0, 1)

\* lines 88-90: /A|B/i, a text that holds one of the alternatives
AlternationRegex(s, alternatives) ==
    \E a \in 1..Len(alternatives) : \E k \in 1..Len(s) : LiteralAt(s, k, alternatives[a])

requiredCerts ==
    << << <<"P","M","P">>,
          <<"P","r","o","j","e","c","t"," ","M","a","n","a","g","e","m","e","n","t"," ",
            "P","r","o","f","e","s","s","i","o","n","a","l">> >>,
       << <<"A","W","S">>,
          <<"A","m","a","z","o","n"," ","W","e","b"," ","S","e","r","v","i","c","e","s">> >>,
       << <<"C","I","S","S","P">>,
          <<"C","e","r","t","i","f","i","e","d"," ","I","n","f","o","r","m","a","t","i","o","n"," ",
            "S","y","s","t","e","m","s"," ","S","e","c","u","r","i","t","y"," ",
            "P","r","o","f","e","s","s","i","o","n","a","l">> >> >>

\* lines 85-100: analyzeCertifications, the value it returns
analyzeCertifications(text) ==
    LET checks == [j \in 1..Len(requiredCerts) |-> AlternationRegex(text, requiredCerts[j])]
    IN  Times100(Quotient(CountTrue(checks), Len(checks)))

\* a count of the tokens that hold the keyword somewhere
CountTokensHolding(tokens, wordLower) ==
    Cardinality({j \in 1..Len(tokens) : Includes(tokens[j], wordLower)})

\* line 108: words.filter(w => w === wordLower).length
CountTokens(tokens, wordLower) == Cardinality({j \in 1..Len(tokens) : tokens[j] = wordLower})

\* lines 102-120: analyzeKeywords: the two lists it stores and the value it
\* returns
analyzeKeywords(text, keywords) ==
    LET textLower == toLowerCase(text)
        tokens == SplitWhitespace(textLower)
        counted == [k \in 1..Len(keywords) |->
                      [word |-> keywords[k],
                       count |-> CountTokens(tokens, toLowerCase(keywords[k]))]]
        matches == SelectSeq(counted, LAMBDA m : m.count > 0)
        missing == SelectSeq(keywords, LAMBDA word : ~Includes(textLower, toLowerCase(word)))
    IN  [matches |-> matches,
         missing |-> missing,
         score |-> Times100(Quotient(Len(matches), Len(keywords)))]

\* line 127: the length a text has to exceed
MinContentLength == 300

\* line 125: /[A-Z][^a-z]+:/
HeaderColonRegex(s) ==
    \E p \in 1..Len(s) :
        /\ s[p] \in UpperLetters
        /\ \E q \in (p + 2)..Len(s) :
              s[q] = ":" /\ \A j \in (p + 1)..(q - 1) : s[j] \notin LowerLetters

\* lines 122-132: calculateFormattingScore
calculateFormattingScore(text) ==
    LET checks == << Includes(text, <<"\n", "\n">>),
                     HeaderColonRegex(text),
                     Len(text) >= 1 /\ text[1] \in BulletChars,
                     Len(text) > MinContentLength,
                     ~\E j \in 1..Len(text) : text[j] \in NonAsciiChars >>
    IN  Times100(Quotient(CountTrue(checks), Len(checks)))

-----------------------------------------------------------------------------
(* The ATS tab as a state machine.                                         *)

W_management == <<"m","a","n","a","g","e","m","e","n","t">>
W_projectManagement == W_project \o <<" ">> \o W_management
W_pmp == <<"p","m","p">>
W_aws == <<"a","w","s">>

\* keyword lists the word-cloud tab can hand over: none, single words, and a
\* phrase of the multi-word cloud
AtsKeywordLists ==
    { <<>>, <<W_project>>, <<W_project, W_management, W_aws>>, <<W_projectManagement, W_pmp>> }

\* a line that alone exceeds the minimum content length
FillerLine == [j \in 1..(MinContentLength + 1) |-> "x"]

\* lines of raw document text: a heading before a blank line, body text with
\* keywords, a keyword with punctuation, bullet points, a long line, a font
\* declaration
AtsLines ==
    { <<"S","K","I","L","L","S",":","\n">>,
      <<"P","r","o","j","e","c","t"," ","m","a","n","a","g","e","m","e","n","t">>,
      <<"M","a","n","a","g","e","d"," ","p","r","o","j","e","c","t","s",",">>,
      <<"-"," ","P","M","P"," ","c","e","r","t","i","f","i","e","d">>,
      <<Bullet>> \o <<" ","l","e","d"," ","a"," ","t","e","a","m">>,
      FillerLine,
      <<"f","o","n","t","-","f","a","m","i","l","y",":"," ","A","r","i","a","l">> }

RECURSIVE JoinLines(_)
JoinLines(ls) ==
    IF Len(ls) = 0 THEN <<>>
    ELSE IF Len(ls) = 1 THEN ls[1]
    ELSE ls[1] \o <<"\n">> \o JoinLines(Tail(ls))

RECURSIVE LineSeqs(_)
LineSeqs(k) ==
    IF k = 0 THEN {<<>>}
    ELSE LET shorter == LineSeqs(k - 1)
         IN  shorter \cup { Append(ls, l) : ls \in {x \in shorter : Len(x) = k - 1}, l \in AtsLines }

\* mammoth.extractRawText(...).value
AtsTexts == { JoinLines(ls) : ls \in LineSeqs(MaxLines) }

AtsInit ==
    /\ selectedWords \in AtsKeywordLists
    /\ activeTab = "ats"
    /\ AtsIdle
    /\ resumeText = <<>>
    /\ optimizedText = <<>>
    /\ changes = <<>>
    /\ uploading = FALSE
    /\ uploaded = <<>>
    /\ lastOp = "none"
    /\ enhanceInput = <<>>
    /\ changesBefore = <<>>
    /\ enhances = 0
    /\ NgramIdle
    /\ WordCloudIdle

\* the analysis with the font score as a fifth term of the mean
AtsUploadWithFont ==
    \E text \in AtsTexts :
        LET keywordResult == analyzeKeywords(text, selectedWords)
            keywordScore == keywordResult.score
            readabilityScore == analyzeReadability(text)
            formattingScore == calculateFormattingScore(text)
            certScore == analyzeCertifications(text)
        IN  /\ atsText' = text
            /\ keywordMatches' = keywordResult.matches
            /\ missingKeywords' = keywordResult.missing
            /\ fontScore' = analyzeFonts(text)
            /\ atsScore' = [keywordMatch |-> keywordScore,
                            readability |-> readabilityScore,
                            formatting |-> formattingScore,
                            certifications |-> certScore,
                            overall |-> DividedBy(Plus(Plus(Plus(Plus(keywordScore, readabilityScore),
                                                  formattingScore), certScore), analyzeFonts(text)), 5)]
            /\ atsOp' = "analyzed"
            /\ UNCHANGED <<ngVars, rsVars, wcVars>>

\* lines 134-155: handleFileUpload of the ATS tab when the conversion succeeds
AtsUpload ==
    \E text \in AtsTexts :
        LET keywordResult == analyzeKeywords(text, selectedWords)
            keywordScore == keywordResult.score
            readabilityScore == analyzeReadability(text)
            formattingScore == calculateFormattingScore(text)
            certScore == analyzeCertifications(text)
        IN  /\ atsText' = text
            /\ keywordMatches' = keywordResult.matches
            /\ missingKeywords' = keywordResult.missing
            /\ fontScore' = analyzeFonts(text)
            /\ atsScore' = [keywordMatch |-> keywordScore,
                            readability |-> readabilityScore,
                            formatting |-> formattingScore,
                            certifications |-> certScore,
                            overall |-> DividedBy(Plus(Plus(Plus(keywordScore, readabilityScore),
                                                            formattingScore), certScore), 4)]
            /\ atsOp' = "analyzed"
            /\ UNCHANGED <<ngVars, rsVars, wcVars>>

\* (when the conversion throws, lines 156-159 alert and set no state)
AtsNext == AtsUpload

SpecAts == AtsInit /\ [][AtsNext]_vars

-----------------------------------------------------------------------------
(* Claims about the scoring.                                               *)

\* the maximal runs of characters of s that are no whitespace, from a to b
TokenSpans(s) ==
    UNION { { <<a, b>> : b \in { j \in a..Len(s) :
                                   /\ \A h \in a..j : s[h] \notin WhitespaceChars
                                   /\ (j = Len(s) \/ s[j + 1] \in WhitespaceChars) } }
            : a \in { i \in 1..Len(s) :
                        s[i] \notin WhitespaceChars /\ (i = 1 \/ s[i - 1] \in WhitespaceChars) } }

\* the whitespace-delimited tokens of the text equal to the keyword, case
\* ignored
Occurrences(text, keyword) ==
    Cardinality({ t \in TokenSpans(text) :
                    toLowerCase(SubSeq(text, t[1], t[2])) = toLowerCase(keyword) })

\* two scores are the same value
SameScore(f, g) ==
    \/ f.den = 0 /\ g.den = 0
    \/ f.den # 0 /\ g.den # 0 /\ f.num * g.den = g.num * f.den

\* a score is a number in [0, 100]
InRange(f) == f.den > 0 /\ 0 <= f.num /\ f.num <= 100 * f.den

Matched(keyword) == \E j \in 1..Len(keywordMatches) : keywordMatches[j].word = keyword
Missing(keyword) == \E j \in 1..Len(missingKeywords) : missingKeywords[j] = keyword

\* C12: after an analysis with a keyword list that is not empty, the keyword
\* score is (keywords with at least one occurrence) / (keywords) x 100, an
\* occurrence being a whitespace-delimited token equal to the keyword up to
\* case, and the reported counts are those numbers of occurrences.
C12_KeywordCoverage ==
    (atsOp = "analyzed" /\ Len(selectedWords) > 0) =>
        LET found == {k \in 1..Len(selectedWords) : Occurrences(atsText, selectedWords[k]) >= 1}
        IN  /\ SameScore(atsScore.keywordMatch, Frac(100 * Cardinality(found), Len(selectedWords)))
            /\ Len(keywordMatches) = Cardinality(found)
            /\ \A k \in found :
                  \E j \in 1..Len(keywordMatches) :
                      /\ keywordMatches[j].word = selectedWords[k]
                      /\ keywordMatches[j].count = Occurrences(atsText, selectedWords[k])
            /\ \A j \in 1..Len(keywordMatches) :
                  \E k \in found : keywordMatches[j].word = selectedWords[k]

\* two of three keywords occur, one of them twice
C12_Witness ==
    /\ atsOp = "analyzed"
    /\ Len(selectedWords) = 3
    /\ Len(keywordMatches) = 2
    /\ \E j \in 1..Len(keywordMatches) : keywordMatches[j].count = 2
    /\ atsScore.keywordMatch.num * 3 = 200 * atsScore.keywordMatch.den

\* C13: after an analysis every keyword is in exactly one of the matched list
\* and the missing list, and the missing list holds the keywords with no
\* occurrence.
C13_MissingIsZeroCount ==
    atsOp = "analyzed" =>
        \A k \in 1..Len(selectedWords) :
            /\ Matched(selectedWords[k]) # Missing(selectedWords[k])
            /\ Missing(selectedWords[k]) <=> Occurrences(atsText, selectedWords[k]) = 0

\* C14: every field of the stored score is a number in [0, 100], for every
\* text and keyword list, the empty ones too.
C14_ScoresInRange ==
    /\ InRange(atsScore.overall)
    /\ InRange(atsScore.keywordMatch)
    /\ InRange(atsScore.formatting)
    /\ InRange(atsScore.readability)
    /\ InRange(atsScore.certifications)

\* a font declaration of the allow-list is in the text
FontDeclared(text) ==
    \E f \in 1..Len(allowedFonts) :
        \E gap \in 0..2 :
            Occurs(toLowerCase(text),
                   <<"f","o","n","t","-","f","a","m","i","l","y",":">>
                   \o [j \in 1..gap |-> " "] \o toLowerCase(allowedFonts[f]))

\* C15: after an analysis the stored sub-scores are those of the stored text,
\* the overall score is the mean of the keyword, readability, formatting and
\* certification scores, and the font score, 100 or 0, is no term of it.
C15_OverallIsMeanOfFour ==
    atsOp = "analyzed" =>
        /\ atsScore.keywordMatch = analyzeKeywords(atsText, selectedWords).score
        /\ atsScore.readability = analyzeReadability(atsText)
        /\ atsScore.formatting = calculateFormattingScore(atsText)
        /\ atsScore.certifications = analyzeCertifications(atsText)
        /\ SameScore(atsScore.overall,
                     DividedBy(Plus(Plus(atsScore.keywordMatch, atsScore.readability),
                                    Plus(atsScore.formatting, atsScore.certifications)), 4))
        /\ fontScore = (IF FontDeclared(atsText) THEN Frac(100, 1) ELSE Frac(0, 1))

\* a text with a font declaration was analysed and has a defined overall score
C15_Witness ==
    /\ atsOp = "analyzed"
    /\ fontScore = Frac(100, 1)
    /\ InRange(atsScore.overall)
    /\ atsScore.overall.num > 0

\* the five heuristics of the specification, the bullet on any line
FormattingHeuristics(text) ==
    << Occurs(text, <<"\n", "\n">>),
       HeaderColonRegex(text),
       \E p \in 1..Len(text) : LineStart(text, p) /\ text[p] \in BulletChars,
       Len(text) > MinContentLength,
       \A j \in 1..Len(text) : text[j] \notin NonAsciiChars >>

\* C16: the formatting score is (true heuristics) / 5 x 100, the bullet
\* heuristic being true when any line of the text begins with a bullet
\* character.
C16_FormattingScore ==
    atsOp = "analyzed" =>
        SameScore(atsScore.formatting, Frac(100 * CountTrue(FormattingHeuristics(atsText)), 5))

HasWhitespace(keyword) == \E j \in 1..Len(keyword) : keyword[j] \in WhitespaceChars

\* C20: after an analysis no keyword with whitespace in it is in the matched
\* list, whatever the text, so the keyword score counts only keywords without
\* whitespace.
C20_PhraseNeverMatched ==
    atsOp = "analyzed" =>
        /\ \A k \in 1..Len(selectedWords) :
              HasWhitespace(selectedWords[k]) => ~Matched(selectedWords[k])
        /\ Len(selectedWords) > 0 =>
              atsScore.keywordMatch.num * Len(selectedWords) <=
                  100 * atsScore.keywordMatch.den
                      * Cardinality({k \in 1..Len(selectedWords) : ~HasWhitespace(selectedWords[k])})

\* the text holds the phrase of a keyword verbatim, and the keyword is in
\* neither list
C20_Witness ==
    /\ atsOp = "analyzed"
    /\ \E k \in 1..Len(selectedWords) :
          /\ HasWhitespace(selectedWords[k])
          /\ Occurs(toLowerCase(atsText), selectedWords[k])
          /\ ~Matched(selectedWords[k])
          /\ ~Missing(selectedWords[k])

-----------------------------------------------------------------------------
(* Claims about the change log.                                            *)

IsPrefix(a, b) == Len(a) <= Len(b) /\ SubSeq(b, 1, Len(a)) = a

\* the place of an entry in the order of discovery: the index of its weak
\* phrase in the verb map for an enhancement, past all of them for a metric
DiscoveryRank(change) ==
    IF change.type = "metric" THEN Len(actionVerbReplacements) + 1
    ELSE IF change.type = "enhancement"
         THEN CHOOSE e \in 1..Len(actionVerbReplacements) :
                  toLowerCase(change.original) = actionVerbReplacements[e].weak
         ELSE 0

AppendedInOrder(entries) ==
    /\ \A j \in 1..Len(entries) : entries[j].type \in {"enhancement", "metric"}
    /\ \A i, j \in 1..Len(entries) : i < j => DiscoveryRank(entries[i]) <= DiscoveryRank(entries[j])

\* a step of the change log: handleEnhance keeps the log as a prefix and
\* appends in the order of discovery, and only an upload takes entries away
ChangeLogStep ==
    /\ lastOp' = "enhance" =>
          /\ IsPrefix(changes, changes')
          /\ AppendedInOrder(SubSeq(changes', Len(changes) + 1, Len(changes')))
    /\ ~IsPrefix(changes, changes') => lastOp' \in {"uploadStart", "upload"}
    /\ lastOp' = "uploadStart" => changes' = <<>>

\* after an upload the log is the list of keyword Changes of that upload
UploadedLog ==
    lastOp = "upload" =>
        /\ changes = processText(resumeText, selectedWords).newChanges
        /\ \A j \in 1..Len(changes) : changes[j].type = "keyword"

\* C17: the change log is append-only within one uploaded document: each
\* handleEnhance leaves the log it read as a prefix and appends enhancement
\* entries in verb-map order, then metric entries; only an upload empties the
\* log, and after it the log holds exactly the keyword Changes of the upload.
C17_AppendOnlyLog == [][ChangeLogStep]_vars /\ []UploadedLog

\* handleEnhance has appended to a log of keyword Changes: "worked", the first
\* phrase of the verb map, ahead of a "Responsible for" that precedes it in
\* the text
C17_Witness ==
    /\ lastOp = "enhance"
    /\ Len(changesBefore) >= 1
    /\ Len(NewChanges) = 2
    /\ NewChanges[1].original = W_worked
    /\ toLowerCase(NewChanges[2].original) = actionVerbReplacements[4].weak

\* handleEnhance has appended an enhancement and then a metric
C17_MetricLast ==
    /\ lastOp = "enhance"
    /\ Len(NewChanges) = 2
    /\ NewChanges[1].type = "enhancement"
    /\ NewChanges[2].type = "metric"

-----------------------------------------------------------------------------
(* The word-cloud tab: WordCloudTab and the two fields of App it writes.   *)

\* lines 65-70: the limit processText passes to every call of generateNgrams
NgramLimit == 15

\* the largest excluded set a toggle still adds a phrase to
MaxToggled == 1

CloudTypes == {"single", "multi", "both"}

\* lines 61-75: processText of WordCloudTab, as the set of lists it can hand
\* to setWords; cloudType, useTrigrams and excludedWords are the state of the
\* render whose closure is called.
processCloudText(text, type, trigrams, excludedWords) ==
    LET unigrams   == generateNgrams(text, 1, NgramLimit, excludedWords)
        multiWords == generateNgrams(text, IF trigrams THEN 3 ELSE 2, NgramLimit, excludedWords)
    IN  IF type = "single" THEN unigrams
        ELSE IF type = "multi" THEN multiWords
        ELSE { u \o m : u \in unigrams, m \in multiWords }

\* lines 84-92: the updater toggleWordExclusion passes to setExcludedWords
ToggledSet(prev, word) == IF word \in prev THEN prev \ {word} ELSE prev \cup {word}

\* lines 107-150: the effect that draws the cloud. It returns early for an
\* empty list and leaves the svg element as it is; otherwise it clears the
\* element and draws the list, and every drawn text gets a click handler that
\* calls the toggleWordExclusion of this render.
Draw(old, list, text, type, trigrams, excludedWords) ==
    IF Len(list) = 0 THEN old
    ELSE [texts |-> Texts(list), inputText |-> text, cloudType |-> type,
          useTrigrams |-> trigrams, excludedWords |-> excludedWords]

\* React runs the effects of a committed render before it dispatches the
\* next event to a handler.
EffectsFlushed == ~effectPending

\* the render on the screen, as the handlers of its elements captured it
CurrentRender ==
    [texts |-> Texts(words), inputText |-> inputText, cloudType |-> cloudType,
     useTrigrams |-> useTrigrams, excludedWords |-> wcExcluded]

\* lines 97-99: the list handleSave passes to onSaveWords
visibleWords(list, excludedWords) ==
    LET kept == SelectSeq(list, LAMBDA w : w.text \notin excludedWords)
    IN  [i \in 1..Len(kept) |-> kept[i].text]

\* the texts a user types or pastes: none, one with a repeated word, and one
\* that has a single word left after cleaning, so no pair of words
CloudTextEmpty == <<>>
CloudTextRepeat == Join(<<W_ProjectC, W_retention, W_ProjectC>>)
CloudTextSingle == Join(<<W_retention, W_the, W_ml>>)
CloudTexts == {CloudTextEmpty, CloudTextRepeat, CloudTextSingle}

\* App shows the word-cloud tab first (line 8); WordCloudTab mounts with the
\* text kept in localStorage (line 24) and the effect of lines 103-105 is
\* still to run.
CloudInit ==
    /\ NgramIdle
    /\ ResumeIdle
    /\ AtsIdle
    /\ activeTab = "wordcloud"
    /\ inputText \in CloudTexts
    /\ words = <<>>
    /\ cloudType = "single"
    /\ useTrigrams = FALSE
    /\ wcExcluded = {}
    /\ effectPending = TRUE
    /\ drawn = EmptyCloud
    /\ wcOp = "mount"

\* the effect of lines 103-105 that keeps the list it finds
RunEffectKeepsWords ==
    /\ activeTab = "wordcloud"
    /\ effectPending
    /\ effectPending' = FALSE
    /\ UNCHANGED <<activeTab, inputText, words, cloudType, useTrigrams, wcExcluded, drawn, wcOp,
                   ngVars, rsVars, atsVars>>

\* lines 103-105: the effect calls the processText of the render it belongs
\* to, and the render that follows draws the new list.
RunEffect ==
    /\ activeTab = "wordcloud"
    /\ effectPending
    /\ words' \in processCloudText(inputText, cloudType, useTrigrams, wcExcluded)
    /\ effectPending' = FALSE
    /\ drawn' = Draw(drawn, words', inputText, cloudType, useTrigrams, wcExcluded)
    /\ UNCHANGED <<activeTab, inputText, cloudType, useTrigrams, wcExcluded, wcOp,
                   ngVars, rsVars, atsVars>>

\* lines 77-81: handleTextChange. None of the dependencies of the effect of
\* lines 103-105 changes.
handleTextChange ==
    /\ activeTab = "wordcloud"
    /\ EffectsFlushed
    /\ \E newText \in CloudTexts :
          /\ inputText' = newText
          /\ words' \in processCloudText(newText, cloudType, useTrigrams, wcExcluded)
    /\ drawn' = Draw(drawn, words', inputText', cloudType, useTrigrams, wcExcluded)
    /\ wcOp' = "handleTextChange"
    /\ UNCHANGED <<activeTab, cloudType, useTrigrams, wcExcluded, effectPending,
                   ngVars, rsVars, atsVars>>

\* line 159: the select changes cloudType; the cloud is drawn again with the
\* list of this render, and the effect of lines 103-105 is to run.
setCloudType ==
    /\ activeTab = "wordcloud"
    /\ EffectsFlushed
    /\ \E type \in CloudTypes \ {cloudType} : cloudType' = type
    /\ effectPending' = TRUE
    /\ drawn' = Draw(drawn, words, inputText, cloudType', useTrigrams, wcExcluded)
    /\ wcOp' = "setCloudType"
    /\ UNCHANGED <<activeTab, inputText, words, useTrigrams, wcExcluded,
                   ngVars, rsVars, atsVars>>

\* lines 167-174: the checkbox, rendered for 'multi' and 'both', flips
\* useTrigrams, which the effect that draws does not depend on.
setUseTrigrams ==
    /\ activeTab = "wordcloud"
    /\ EffectsFlushed
    /\ cloudType \in {"multi", "both"}
    /\ useTrigrams' = ~useTrigrams
    /\ effectPending' = TRUE
    /\ wcOp' = "setUseTrigrams"
    /\ UNCHANGED <<activeTab, inputText, words, cloudType, wcExcluded, drawn,
                   ngVars, rsVars, atsVars>>

\* lines 83-94: toggleWordExclusion of the render `render`. The updater gets
\* the current set; processText is the closure of that render and reads the
\* set, the mode and the text of that render.
toggleWordExclusion(word, render) ==
    /\ word \in wcExcluded \/ Cardinality(wcExcluded) < MaxToggled
    /\ wcExcluded' = ToggledSet(wcExcluded, word)
    /\ words' \in processCloudText(render.inputText, render.cloudType, render.useTrigrams,
                                   render.excludedWords)
    /\ effectPending' = TRUE
    /\ drawn' = Draw(drawn, words', inputText, cloudType, useTrigrams, wcExcluded')
    /\ wcOp' = "toggleWordExclusion"
    /\ UNCHANGED <<activeTab, inputText, cloudType, useTrigrams, ngVars, rsVars, atsVars>>

\* lines 231-235: the checkbox of a word of the list
ToggleInList ==
    /\ activeTab = "wordcloud"
    /\ EffectsFlushed
    /\ \E j \in 1..Len(words) : toggleWordExclusion(words[j].text, CurrentRender)

\* line 146: a click on a word of the cloud, whose handler belongs to the
\* render that drew it
ToggleInCloud ==
    /\ activeTab = "wordcloud"
    /\ EffectsFlushed
    /\ \E word \in drawn.texts : toggleWordExclusion(word, drawn)

\* lines 36-41: resetVisual; the last setWords of the handler is the one of
\* processText, which reads the excluded set of this render.
resetVisual ==
    /\ activeTab = "wordcloud"
    /\ EffectsFlushed
    /\ wcExcluded' = {}
    /\ words' \in processCloudText(inputText, cloudType, useTrigrams, wcExcluded)
    /\ effectPending' = TRUE
    /\ drawn' = Draw(drawn, words', inputText, cloudType, useTrigrams, wcExcluded')
    /\ wcOp' = "resetVisual"
    /\ UNCHANGED <<activeTab, inputText, cloudType, useTrigrams, ngVars, rsVars, atsVars>>

\* handleSave without the filter of line 98
handleSaveUnfiltered ==
    /\ activeTab = "wordcloud"
    /\ selectedWords' = visibleWords(words, {})
    /\ activeTab' = "resume"
    /\ effectPending' = FALSE
    /\ wcOp' = "handleSave"
    /\ UNCHANGED <<inputText, words, cloudType, useTrigrams, wcExcluded, drawn, ngVars, atsVars,
                   resumeText, optimizedText, changes, uploading, uploaded, lastOp,
                   enhanceInput, changesBefore, enhances>>

\* lines 96-101 and handleSaveWords of App (lines 11-14). The button is on
\* the screen in every render, also in the one between a toggle and the
\* effect that follows it, and the handler is admitted there too. App then
\* shows the resume tab; the last state of WordCloudTab is kept.
handleSave ==
    /\ activeTab = "wordcloud"
    /\ selectedWords' = visibleWords(words, wcExcluded)
    /\ activeTab' = "resume"
    /\ effectPending' = FALSE
    /\ wcOp' = "handleSave"
    /\ UNCHANGED <<inputText, words, cloudType, useTrigrams, wcExcluded, drawn, ngVars, atsVars,
                   resumeText, optimizedText, changes, uploading, uploaded, lastOp,
                   enhanceInput, changesBefore, enhances>>

CloudNext ==
    \/ RunEffect
    \/ handleTextChange
    \/ setCloudType
    \/ setUseTrigrams
    \/ ToggleInList
    \/ ToggleInCloud
    \/ resetVisual
    \/ handleSave

\* lines 103-105, as a step: the pending effect runs and the tab stays. Of
\* the steps of CloudNext these are the steps of RunEffect, which is enabled
\* whenever the effect is pending.
EffectRuns ==
    /\ activeTab = "wordcloud"
    /\ effectPending
    /\ effectPending' = FALSE
    /\ activeTab' = activeTab

\* React runs the effects of a committed render, whatever else happens
SpecCloud == CloudInit /\ [][CloudNext]_vars /\ WF_effectPending(EffectRuns)

-----------------------------------------------------------------------------
(* Claims about the word-cloud tab.                                        *)

\* the lists an extraction of the current text under the current mode and
\* the current excluded set can give
CurrentExtraction == processCloudText(inputText, cloudType, useTrigrams, wcExcluded)

Settled == activeTab = "wordcloud" /\ ~effectPending

DisplayedWhenSettled ==
    Settled => /\ words \in CurrentExtraction
               /\ \A j \in 1..Len(words) : words[j].text \notin wcExcluded

ResetEmptiesExcluded == wcOp = "resetVisual" => wcExcluded = {}

\* C18: after any sequence of text edits, mode and trigram changes, toggles
\* and resets, once the pending effect has run the displayed list is an
\* extraction of the current text under the current mode and the current
\* excluded set, so it holds no excluded phrase; after resetVisual the
\* excluded set is empty; and a pending effect does run, so the list a
\* handler computed from the set of its own render does not stay.
C18_DisplayFollowsState ==
    /\ []DisplayedWhenSettled
    /\ []ResetEmptiesExcluded
    /\ (activeTab = "wordcloud" /\ effectPending)
          ~> (activeTab # "wordcloud" \/ (~effectPending /\ words \in CurrentExtraction))

\* the effect has run after a toggle that excluded a phrase of a list that
\* still has other phrases
C18_Witness ==
    /\ Settled
    /\ wcOp = "toggleWordExclusion"
    /\ wcExcluded # {}
    /\ Len(words) > 0

\* the state between a toggle and its effect: the list on the screen holds
\* an excluded phrase
C18_StaleDisplayed ==
    /\ activeTab = "wordcloud"
    /\ effectPending
    /\ wcOp \in {"toggleWordExclusion", "resetVisual"}
    /\ words \notin CurrentExtraction

\* the texts of a list that are not excluded, in the order of the list
RECURSIVE NotExcludedTexts(_, _)
NotExcludedTexts(list, excludedWords) ==
    IF Len(list) = 0 THEN <<>>
    ELSE (IF Head(list).text \in excludedWords THEN <<>> ELSE <<Head(list).text>>)
         \o NotExcludedTexts(Tail(list), excludedWords)

SaveStep ==
    (activeTab = "wordcloud" /\ wcOp' = "handleSave")
        => /\ selectedWords' = NotExcludedTexts(words, wcExcluded)
           /\ \A k \in 1..Len(selectedWords') : selectedWords'[k] \notin wcExcluded
           /\ activeTab' = "resume"

\* C19: whenever Save is triggered, also between a toggle and the
\* extraction that follows it, the list handed over is the displayed texts
\* that are not excluded, in display order, without any excluded phrase, and
\* afterwards the active tab is 'resume' and selectedWords is that list.
C19_SaveHandsOverVisible == [][SaveStep]_vars

\* a save between a toggle and its effect: the list on the screen held an
\* excluded phrase, and the rest of it was handed over
C19_Witness ==
    /\ wcOp = "handleSave"
    /\ activeTab = "resume"
    /\ \E j \in 1..Len(words) : words[j].text \in wcExcluded
    /\ Len(selectedWords) > 0
    /\ selectedWords = NotExcludedTexts(words, wcExcluded)

=============================================================================
